---------------------------- MODULE Spec2Model ----------------------------
(***************************************************************************)
(* A model of the langchain-agent repository:                              *)
(*   src/agent/tool_loader.py  load_tools: the tool registry and the       *)
(*                             resolution of the requested tool names      *)
(*   src/agent/agent.py        load_agent, PlanAndExecuteWrapper.invoke    *)
(*   src/agent/utils.py        MEMORY, the shared conversation memory      *)
(*   src/agent/config.py       set_environment                             *)
(*   src/app/app.py            the Streamlit script (one run per event)    *)
(*                                                                         *)
(* Python exceptions are values: "none" (nothing raised), "ImportError",   *)
(* "ValueError", "TimeoutError", and "Exception" for any other subclass of *)
(* Exception.                                                              *)
(***************************************************************************)
EXTENDS Integers, Sequences, FiniteSets, TLC

VARIABLES
    environ,          \* os.environ restricted to the credentials load_tools reads
    startup_environ,  \* what environ held when the process started
    installation,     \* what the optional imports and constructors answer
    pc,               \* position of the modelled run
    requested,        \* the tool_names argument of the last load_agent call
    available_tools,  \* the registry built by the last load_tools call
    agent,            \* the value returned by the last load_agent call
    printed,          \* what load_tools printed, in order
    last_call,        \* the last tool invocation and how it ended
    strategy,         \* the strategy argument of the last load_agent call
    inv_pc,           \* position of agent.invoke: idle, running, returned, raised
    iterations,       \* AgentExecutor's iteration counter of the running invoke
    result,           \* what the plan-and-execute executor returned to the wrapper
    response,         \* what agent.invoke returned, or the exception it raised
    memory,           \* MEMORY.chat_memory.messages
    chat_history,     \* st.session_state.chat_history
    shown,            \* what the chat turns of the session displayed, in order
    last_event,       \* the event that started the last script run
    script,           \* how the last script run ended: completed or uncaught
    sessions          \* per browser session: where its script thread is

toolVars == <<requested, available_tools, agent, printed, strategy>>

invokeVars == <<inv_pc, iterations, result, response>>

envVars == <<environ, startup_environ, installation>>

appVars == <<memory, chat_history, shown, last_event, script>>

vars == <<envVars, pc, last_call, toolVars, invokeVars, appVars, sessions>>

---------------------------------------------------------------------------
(* Bounds of the model *)

\* longest tool_names list passed to load_agent
MaxRequested == 2

---------------------------------------------------------------------------
(* Python's try/except *)

\* outcome of running the body of a try block
Stage == {"ok", "ImportError", "Exception"}

\* ImportError is a subclass of Exception: `except Exception` catches both
Caught(exc, handlers) == exc \in handlers \/ "Exception" \in handlers

\* "ok": the body completed; "caught": a handler took the exception;
\* otherwise the exception that leaves the try statement
Try(outcome, handlers) ==
    IF outcome = "ok" THEN "ok"
    ELSE IF Caught(outcome, handlers) THEN "caught"
    ELSE outcome

---------------------------------------------------------------------------
(* Tools.  guarded: the tool's function wraps the live provider call in    *)
(* try/except Exception and returns a string (tool_loader.py 54-69,        *)
(* 185-200, 235-238); the other tools hand the provider's function to the  *)
(* framework as it is.  Names are those given in the source, or the        *)
(* framework class's default name where the source gives none.             *)

Tool(name, guarded) == [name |-> name, guarded |-> guarded]

NoTool == Tool("None", FALSE)

CustomDuckDuckGoSearch == Tool("ddg-search", TRUE)

DuckDuckGoSearchRun == Tool("duckduckgo_search", FALSE)

OpenWeatherMapTool == Tool("OpenWeatherMap", TRUE)

WolframAlphaTool == Tool("wolfram_alpha", TRUE)

GoogleSearchRun == Tool("google_search", FALSE)

\* the dictionary literal of the always-available tools
BaseTools ==
    ("arxiv" :> Tool("arxiv", FALSE)) @@
    ("wikipedia" :> Tool("wikipedia", FALSE)) @@
    ("python_repl" :> Tool("python_repl", FALSE)) @@
    ("llm-math" :> Tool("Calculator", FALSE)) @@
    ("critical_search" :> Tool("Self-ask agent", FALSE))

OptionalNames == {"ddg-search", "openweathermap", "wolfram-alpha", "google-search"}

Msg(m, arg) == [msg |-> m, arg |-> arg]

---------------------------------------------------------------------------
(* load_tools: the registry *)

EnvVars == {"OWM_API_KEY", "WOLFRAM_ALPHA_APPID", "GOOGLE_API_KEY", "GOOGLE_CSE_ID"}

\* os.environ.get(name) is falsy when the variable is unset or empty
EnvValues == {"", "key"}

\* What the installation answers when a try block of load_tools runs:
\*   ddgs        from ddgs import DDGS (the block holds the import, a class
\*               statement and a Tool of constant arguments: DDGS() itself is
\*               called in search, so the block fails by ImportError only)
\*   ddg_old     the langchain_community DuckDuckGo imports and constructor
\*   pyowm       from pyowm import OWM; OpenWeatherMapTool(key)
\*   wolfram     the wolfram imports; WolframAlphaTool(api_wrapper=...)
\*   google      langchain_google_community import; GoogleSearchRun(...)
\*   google_old  the langchain_community google imports and constructor
Probes ==
    [ddgs : {"ok", "ImportError"}, ddg_old : Stage, pyowm : Stage,
     wolfram : Stage, google : Stage, google_old : Stage]

DdgHandlers == {"ImportError"}

\* the fallback's handler narrowed to `except ImportError`
DdgFallbackHandlersImportOnly == {"ImportError"}

DdgFallbackHandlers == {"Exception"}

OwmHandlers == {"ImportError", "Exception"}

WolframHandlers == {"ImportError", "Exception"}

GoogleHandlers == {"ImportError", "Exception"}

GoogleFallbackHandlers == {"Exception"}

\* state threaded through load_tools: the registry so far, what was printed,
\* and the exception that left the function
Build(reg, out, raised) == [reg |-> reg, out |-> out, raised |-> raised]

\* lines 38-97 and 156-158: ddg_tool, then its registration
ddg_section(b, p) ==
    IF p.ddgs = "ok"
    THEN Build(b.reg @@ ("ddg-search" :> CustomDuckDuckGoSearch), b.out, "none")
    ELSE IF ~Caught(p.ddgs, DdgHandlers)
    THEN Build(b.reg, b.out, p.ddgs)
    ELSE LET out1 == Append(b.out, Msg("ddgs package not installed", ""))
             t == Try(p.ddg_old, DdgFallbackHandlers)
         IN  IF t = "ok"
             THEN Build(b.reg @@ ("ddg-search" :> DuckDuckGoSearchRun), out1, "none")
             ELSE IF t = "caught"
             THEN Build(b.reg,
                        Append(out1, Msg("Could not initialize", "ddg-search")),
                        "none")
             ELSE Build(b.reg, out1, t)

\* the handler that printed: `except ImportError` comes first
Warning(outcome, name) ==
    IF outcome = "ImportError"
    THEN Msg("package not installed", name)
    ELSE Msg("Could not initialize", name)

\* lines 160-216 and 218-261: a tool behind one credential and one try
guarded_section(b, cred, outcome, handlers, name, tool) ==
    IF b.raised # "none" THEN b
    ELSE IF cred = ""
    THEN Build(b.reg, Append(b.out, Msg("credential not found", name)), "none")
    ELSE LET t == Try(outcome, handlers)
         IN  IF t = "ok" THEN Build(b.reg @@ (name :> tool), b.out, "none")
             ELSE IF t = "caught"
             THEN Build(b.reg, Append(b.out, Warning(outcome, name)), "none")
             ELSE Build(b.reg, b.out, t)

\* lines 263-299: google-search, whose ImportError handler tries the
\* deprecated implementation
google_section(b, env, p) ==
    IF b.raised # "none" THEN b
    ELSE IF env["GOOGLE_API_KEY"] = "" \/ env["GOOGLE_CSE_ID"] = ""
    THEN Build(b.reg, Append(b.out, Msg("credential not found", "google-search")),
               "none")
    ELSE IF p.google = "ok"
    THEN Build(b.reg @@ ("google-search" :> GoogleSearchRun), b.out, "none")
    ELSE IF p.google = "ImportError" /\ "ImportError" \in GoogleHandlers
    THEN LET out1 == Append(b.out, Msg("package not installed", "google-search"))
             t == Try(p.google_old, GoogleFallbackHandlers)
         IN  IF t = "ok"
             THEN Build(b.reg @@ ("google-search" :> GoogleSearchRun), out1, "none")
             ELSE IF t = "caught"
             THEN Build(b.reg,
                        Append(out1, Msg("Could not initialize", "google-search")),
                        "none")
             ELSE Build(b.reg, out1, t)
    ELSE IF Caught(p.google, GoogleHandlers)
    THEN Build(b.reg, Append(b.out, Msg("Could not initialize", "google-search")),
               "none")
    ELSE Build(b.reg, b.out, p.google)

\* lines 38-299
build_registry(env, p) ==
    LET b0 == Build(BaseTools, <<>>, "none")
        b1 == ddg_section(b0, p)
        b2 == guarded_section(b1, env["OWM_API_KEY"], p.pyowm, OwmHandlers,
                              "openweathermap", OpenWeatherMapTool)
        b3 == guarded_section(b2, env["WOLFRAM_ALPHA_APPID"], p.wolfram,
                              WolframHandlers, "wolfram-alpha", WolframAlphaTool)
    IN  google_section(b3, env, p)

---------------------------------------------------------------------------
(* load_tools: the resolution of the requested names, lines 301-309 *)

Resolved(tools, out, raised) == [tools |-> tools, out |-> out, raised |-> raised]

\* the loop body without its membership test: available_tools[name] raises
\* KeyError for a name that is not a key
resolve_one_unchecked(r, name, reg) ==
    IF name \in DOMAIN reg
    THEN Resolved(Append(r.tools, reg[name]), r.out, r.raised)
    ELSE Resolved(r.tools, r.out, "KeyError")

\* the body of `for name in tool_names`
resolve_one(r, name, reg) ==
    IF name \in DOMAIN reg
    THEN Resolved(Append(r.tools, reg[name]), r.out, r.raised)
    ELSE Resolved(r.tools, Append(r.out, Msg("Tool not found", name)), r.raised)

RECURSIVE resolve(_, _, _, _)
resolve(tool_names, i, reg, r) ==
    IF i > Len(tool_names) \/ r.raised # "none" THEN r
    ELSE resolve(tool_names, i + 1, reg, resolve_one(r, tool_names[i], reg))

\* lines 301-309 on a built registry b; nothing is resolved when the build raised
resolve_requested(tool_names, b) ==
    IF b.raised # "none"
    THEN [reg |-> b.reg, tools |-> <<>>, out |-> b.out, raised |-> b.raised]
    ELSE LET r == resolve(tool_names, 1, b.reg, Resolved(<<>>, b.out, "none"))
         IN  [reg |-> b.reg, tools |-> r.tools, out |-> r.out, raised |-> r.raised]

\* the whole function: registry, then resolution
load_tools(tool_names, env, p) == resolve_requested(tool_names, build_registry(env, p))

---------------------------------------------------------------------------
(* load_agent *)

ReasoningStrategies == {"zero-shot-react", "plan-and-solve"}

\* a value outside the Literal: a type annotation is not checked at run time
StrategyInputs == ReasoningStrategies \cup {"chain-of-thought"}

NoAgent == [kind |-> "None", tools |-> <<>>, memory |-> "None"]

\* agent.py 41-86 on the result t of load_tools.  kind is the class of the
\* returned object; memory is the memory bound to it (lines 54 and 85).
build_agent(strat, t) ==
    IF t.raised # "none"
    THEN [raised |-> t.raised, agent |-> NoAgent, reg |-> t.reg, out |-> t.out]
    ELSE IF strat = "plan-and-solve"
    THEN [raised |-> "none",
          agent |-> [kind |-> "PlanAndExecuteWrapper", tools |-> t.tools,
                     memory |-> "MEMORY"],
          reg |-> t.reg, out |-> t.out]
    ELSE [raised |-> "none",
          agent |-> [kind |-> "AgentExecutor", tools |-> t.tools,
                     memory |-> "MEMORY"],
          reg |-> t.reg, out |-> t.out]

\* agent.py 36-86
load_agent(tool_names, strat, env, p) ==
    build_agent(strat, load_tools(tool_names, env, p))

---------------------------------------------------------------------------
(* PlanAndExecuteWrapper.invoke, agent.py 56-70 *)

\* the literal of lines 68 and (app.py) 93, 96: a fixed non-empty message
Sentinel == "no answer could be generated"

\* longest intermediate_steps list the executor returns
MaxSteps == 2

\* an element of result["intermediate_steps"]: a dict with or without a
\* "response" key, or a value that is no dict (an (action, observation) tuple)
Step(is_dict, has_response, text) ==
    [is_dict |-> is_dict, has_response |-> has_response, response |-> text]

StepValues ==
    {Step(FALSE, FALSE, ""), Step(TRUE, FALSE, "")}
        \cup {Step(TRUE, TRUE, t) : t \in {"", "r1", "r2"}}

\* the dict the executor returns: each key may be missing
ExecResult(has_output, output, has_steps, steps) ==
    [has_output |-> has_output, output |-> output,
     has_steps |-> has_steps, steps |-> steps]

NoResult == ExecResult(FALSE, "", FALSE, <<>>)

\* Python truthiness of a str
Truthy(text) == text # ""

\* lines 62-65: the first step, from the end, that is a dict with a
\* "response" key sets result["output"]; the loop then breaks
RECURSIVE scan_reversed(_, _, _)
scan_reversed(res, steps, i) ==
    IF i = 0 THEN res
    ELSE IF steps[i].is_dict /\ steps[i].has_response
    THEN [res EXCEPT !.has_output = TRUE, !.output = steps[i].response]
    ELSE scan_reversed(res, steps, i - 1)

\* lines 60-65
fill_output(res) ==
    IF ~res.has_output \/ ~Truthy(res.output)
    THEN IF res.has_steps THEN scan_reversed(res, res.steps, Len(res.steps))
         ELSE res
    ELSE res

\* dict.get(key, default): the default only when the key is missing
Get(has_key, value, default) == IF has_key THEN value ELSE default

Response(output, steps, exc) ==
    [output |-> output, intermediate_steps |-> steps, exc |-> exc]

NoResponse == Response("", <<>>, "none")

\* lines 56-70
wrapper_invoke(res) ==
    LET r == fill_output(res)
    IN  Response(Get(r.has_output, r.output, Sentinel),
                 Get(r.has_steps, r.steps, <<>>), "none")

---------------------------------------------------------------------------
(* The AgentExecutor built at agent.py 78-86.  Its loop is the framework's: *)
(* while iterations < max_iterations, one model call per iteration; a final *)
(* answer returns, an action (or, with handle_parsing_errors, an unparsable *)
(* output) adds an observation and counts one iteration; past the bound the *)
(* agent's return_stopped_response(early_stopping_method) decides.  The     *)
(* agent of create_react_agent is a runnable agent, whose                   *)
(* return_stopped_response knows "force" only and raises ValueError for any *)
(* other method.                                                            *)

max_iterations == 15

handle_parsing_errors == TRUE

early_stopping_method == "generate"

should_continue(n) == n < max_iterations

\* what one model call of the loop gives
LlmOutputs == {"action", "unparsable", "final", "final empty", "exception"}

\* one pass of the loop body: the position, the counter and the response after it
take_next_step(llm, n) ==
    CASE llm = "final" -> [pc |-> "returned", n |-> n,
                           response |-> Response("answer", <<>>, "none")]
      [] llm = "final empty" -> [pc |-> "returned", n |-> n,
                                 response |-> Response("", <<>>, "none")]
      [] llm = "action" -> [pc |-> "running", n |-> n + 1, response |-> NoResponse]
      [] llm = "unparsable" ->
            IF handle_parsing_errors
            THEN [pc |-> "running", n |-> n + 1, response |-> NoResponse]
            ELSE [pc |-> "raised", n |-> n,
                  response |-> Response("", <<>>, "ValueError")]
      [] OTHER -> [pc |-> "raised", n |-> n,
                   response |-> Response("", <<>>, "Exception")]

return_stopped_response(method) ==
    IF method = "force"
    THEN [pc |-> "returned",
          response |-> Response("Agent stopped due to iteration limit or time limit.",
                                <<>>, "none")]
    ELSE [pc |-> "raised", response |-> Response("", <<>>, "ValueError")]

---------------------------------------------------------------------------
(* Actions *)

RequestNames == {"llm-math", "ddg-search", "openweathermap", "nonexistent-tool"}

RECURSIVE SeqsUpTo(_, _)
SeqsUpTo(S, n) ==
    IF n = 0 THEN {<<>>}
    ELSE LET shorter == SeqsUpTo(S, n - 1)
         IN  shorter \cup {Append(s, x) : s \in {q \in shorter : Len(q) = n - 1}, x \in S}

NameSeqs == SeqsUpTo(RequestNames, MaxRequested)

ExecResults ==
    {ExecResult(FALSE, "", TRUE, st) : st \in SeqsUpTo(StepValues, MaxSteps)}
        \cup {ExecResult(TRUE, o, TRUE, st) :
                o \in {"", "answer"}, st \in SeqsUpTo(StepValues, MaxSteps)}
        \cup {ExecResult(FALSE, "", FALSE, <<>>)}
        \cup {ExecResult(TRUE, o, FALSE, <<>>) : o \in {"", "answer"}}

NoCall == [tool |-> NoTool, provider |-> "None", result |-> "None"]

\* A try block that does not run has no outcome: its field stays "ok".  The
\* fallbacks run after an ImportError of the first import only, the
\* credential-guarded blocks only when os.environ holds the credentials.
Installations(env) ==
    {p \in Probes :
        /\ p.ddgs = "ok" => p.ddg_old = "ok"
        /\ env["OWM_API_KEY"] = "" => p.pyowm = "ok"
        /\ env["WOLFRAM_ALPHA_APPID"] = "" => p.wolfram = "ok"
        /\ (env["GOOGLE_API_KEY"] = "" \/ env["GOOGLE_CSE_ID"] = "") => p.google = "ok"
        /\ p.google # "ImportError" => p.google_old = "ok"}

\* the browser sessions served by the process
UISessions == {"s1", "s2"}

\* a session whose script thread is not inside agent_chain.invoke
IdleSession == [pc |-> "idle", prompt |-> "", agent |-> NoAgent]

\* the process at position `at`, started under one of the environments envs
InitFrom(envs, at) ==
    /\ environ \in envs
    /\ startup_environ = environ
    /\ installation \in Installations(environ)
    /\ pc = at
    /\ sessions = [s \in UISessions |-> IdleSession]
    /\ requested = <<>>
    /\ available_tools = <<>>
    /\ agent = NoAgent
    /\ printed = <<>>
    /\ strategy = "None"
    /\ last_call = NoCall
    /\ inv_pc = "idle"
    /\ iterations = 0
    /\ result = NoResult
    /\ response = NoResponse
    /\ memory = <<>>
    /\ chat_history = <<>>
    /\ shown = <<>>
    /\ last_event = "none"
    /\ script = "completed"

\* the process when the modules are imported and nothing was loaded yet
InitWith(envs) == InitFrom(envs, "start")

\* one call of load_agent
LoadAgentWith(names, strategies) ==
    /\ pc = "start"
    /\ \E tool_names \in names, strat \in strategies :
          LET r == load_agent(tool_names, strat, environ, installation)
          IN  /\ requested' = tool_names
              /\ strategy' = strat
              /\ available_tools' = r.reg
              /\ agent' = r.agent
              /\ printed' = r.out
              /\ pc' = IF r.raised = "none" THEN "loaded" ELSE "load_raised"
    /\ UNCHANGED <<envVars, last_call, invokeVars, appVars, sessions>>

\* what a call of the tool's function gives the reasoning loop
tool_call(tool, provider) ==
    IF provider = "ok" THEN "returned result"
    ELSE IF tool.guarded THEN "returned error string"
    ELSE "raised"

\* the reasoning loop calls one of the agent's tools; the provider answers or fails
InvokeTool ==
    /\ pc = "loaded"
    /\ \E i \in 1..Len(agent.tools), provider \in {"ok", "fails"} :
          last_call' = [tool |-> agent.tools[i], provider |-> provider,
                        result |-> tool_call(agent.tools[i], provider)]
    /\ pc' = "called"
    /\ UNCHANGED <<envVars, toolVars, invokeVars, appVars, sessions>>

\* PlanAndExecuteWrapper.invoke: the executor returns a dict, or raises
WrapperInvoke ==
    /\ pc = "loaded"
    /\ agent.kind = "PlanAndExecuteWrapper"
    /\ \/ \E res \in ExecResults :
             /\ result' = res
             /\ response' = wrapper_invoke(res)
             /\ inv_pc' = "returned"
       \/ /\ result' = NoResult
          /\ response' = Response("", <<>>, "Exception")
          /\ inv_pc' = "raised"
    /\ UNCHANGED <<envVars, pc, last_call, toolVars, iterations, appVars, sessions>>

\* AgentExecutor.invoke is entered
ReactInvoke ==
    /\ pc = "loaded"
    /\ agent.kind = "AgentExecutor"
    /\ inv_pc # "running"
    /\ inv_pc' = "running"
    /\ iterations' = 0
    /\ response' = NoResponse
    /\ UNCHANGED <<envVars, pc, last_call, toolVars, result, appVars, sessions>>

\* one iteration of the loop
ReactIterate ==
    /\ inv_pc = "running"
    /\ should_continue(iterations)
    /\ \E llm \in LlmOutputs :
          LET s == take_next_step(llm, iterations)
          IN  /\ inv_pc' = s.pc
              /\ iterations' = s.n
              /\ response' = s.response
    /\ UNCHANGED <<envVars, pc, last_call, toolVars, result, appVars, sessions>>

\* the loop ended without a final answer
ReactStop ==
    /\ inv_pc = "running"
    /\ ~should_continue(iterations)
    /\ LET s == return_stopped_response(early_stopping_method)
       IN  /\ inv_pc' = s.pc
           /\ response' = s.response
    /\ UNCHANGED <<envVars, pc, last_call, toolVars, iterations, result, appVars, sessions>>

---------------------------------------------------------------------------
(* SpecTools: one load_agent call under every environment and installation, *)
(* then a tool call.                                                        *)

InitTools == InitWith([EnvVars -> EnvValues])

LoadAgentAnyInstallation == LoadAgentWith(NameSeqs, ReasoningStrategies)

NextTools == LoadAgentAnyInstallation \/ InvokeTool

SpecTools == InitTools /\ [][NextTools]_vars

---------------------------------------------------------------------------
(* SpecAgent: one load_agent call with any strategy value, then invocations *)
(* of the agent it returned.                                                *)

\* no credential is set: the optional try blocks behind one do not run
InitAgent == InitWith({[v \in EnvVars |-> ""]}) /\ installation.ddgs = "ok"

LoadAgentAnyStrategy ==
    LoadAgentWith({<<"llm-math", "ddg-search">>}, StrategyInputs)

NextAgent ==
    LoadAgentAnyStrategy \/ WrapperInvoke \/ ReactInvoke \/ ReactIterate \/ ReactStop

SpecAgent == InitAgent /\ [][NextAgent]_vars

---------------------------------------------------------------------------
(* The Streamlit script, app.py 25-111: every user event runs it from the   *)
(* top.  MEMORY lives in the imported module agent.utils and outlives the   *)
(* runs; the framework's chain records (input, output) into the memory      *)
(* bound to it when a run of the chain returns, and nothing when it raises. *)

\* chat turns of one session
MaxTurns == 3

Prompts == {"q1", "q2"}

NoPrompt == ""

\* the multiselect's default, app.py 61
DefaultSelection == <<"ddg-search", "wikipedia", "arxiv", "openweathermap">>

Human(text) == [type |-> "human", content |-> text]

AI(text) == [type |-> "ai", content |-> text]

\* ConversationBufferMemory.save_context with output_key="output", utils.py 4-12
save_context(messages, prompt, output) == messages \o <<Human(prompt), AI(output)>>

\* a clear that leaves the messages in place
chat_memory_keep(messages) == messages

\* MEMORY.chat_memory.clear(), app.py 64-65
chat_memory_clear(messages) == <<>>

\* the memory after a returned invoke of agent ag (agent.py 54 and 85)
recorded(ag, messages, prompt, resp) ==
    IF ag.memory = "MEMORY" THEN save_context(messages, prompt, resp.output)
    ELSE messages

\* a handler for timeouts only
AppHandlersTimeoutOnly == {"TimeoutError"}

\* `except Exception`, app.py 109
AppHandlers == {"Exception"}

\* how agent_chain.invoke can end: the agent's own outcomes, or a timeout or
\* an exception of the model call
InvokeOutcomes(ag) ==
    {Response("", <<>>, "TimeoutError")} \cup
    (IF ag.kind = "PlanAndExecuteWrapper"
     THEN {wrapper_invoke(ExecResult(TRUE, o, FALSE, <<>>)) : o \in {"answer", ""}}
              \cup {Response("", <<>>, "Exception")}
     ELSE {take_next_step(llm, 0).response : llm \in {"final", "final empty", "exception"}}
              \cup {return_stopped_response(early_stopping_method).response})

AppState(mem, hist, disp, how, resp) ==
    [memory |-> mem, chat_history |-> hist, shown |-> disp, script |-> how,
     response |-> resp]

\* one run of the script: clicked is the sidebar button, prompt the chat
\* input (NoPrompt when there is none), la the result of load_agent (line 72),
\* resp how the invoke of lines 82-85 ends
script_run(clicked, prompt, la, resp, mem, hist, disp) ==
    LET mem0 == IF clicked THEN chat_memory_clear(mem) ELSE mem
    IN  IF la.raised # "none" THEN AppState(mem0, hist, disp, "uncaught", NoResponse)
        ELSE IF prompt = NoPrompt
        THEN AppState(mem0, hist, disp, "completed", NoResponse)
        ELSE IF resp.exc = "none"
        THEN AppState(recorded(la.agent, mem0, prompt, resp),
                      Append(hist, [role |-> "Assistant", content |-> resp.output]),
                      Append(disp, "answer"), "completed", resp)
        ELSE IF Caught(resp.exc, AppHandlers)
        THEN AppState(mem0, hist, Append(disp, "error"), "completed", resp)
        ELSE AppState(mem0, hist, disp, "uncaught", resp)

\* a script run started by `event`, with the widgets' values
Run(event, clicked, prompt, strat) ==
    LET la == load_agent(DefaultSelection, strat, environ, installation)
    IN  /\ requested' = DefaultSelection
        /\ strategy' = strat
        /\ available_tools' = la.reg
        /\ agent' = la.agent
        /\ printed' = la.out
        /\ pc' = "loaded"
        /\ last_event' = event
        /\ \E resp \in (IF prompt = NoPrompt THEN {NoResponse}
                         ELSE InvokeOutcomes(la.agent)) :
              LET a == script_run(clicked, prompt, la, resp, memory, chat_history, shown)
              IN  /\ memory' = a.memory
                  /\ chat_history' = a.chat_history
                  /\ shown' = a.shown
                  /\ script' = a.script
                  /\ response' = a.response
        /\ UNCHANGED <<envVars, last_call, inv_pc, iterations, result, sessions>>

\* the page is opened, or the strategy is changed
Rerun == \E strat \in ReasoningStrategies : Run("rerun", FALSE, NoPrompt, strat)

\* "Clear message history" is clicked
ClearHistory == pc = "loaded" /\ Run("clear", TRUE, NoPrompt, strategy)

\* a prompt is submitted
ChatTurn ==
    /\ pc = "loaded"
    /\ Len(shown) < MaxTurns
    /\ \E prompt \in Prompts : Run("chat", FALSE, prompt, strategy)

InitApp == InitWith({[v \in EnvVars |-> ""]})

NextApp == Rerun \/ ClearHistory \/ ChatTurn

SpecApp == InitApp /\ [][NextApp]_vars

---------------------------------------------------------------------------
(* Several browser sessions of one process.  Streamlit runs the script of   *)
(* each session in a thread of its own; agent.utils is imported once, so    *)
(* the agent of every session is bound to the one MEMORY (utils.py 12,      *)
(* agent.py 54 and 85).  A thread is inside agent_chain.invoke (app.py      *)
(* 82-85) from the call until it returns or raises.  The chain records the  *)
(* turn when the run returns, as two appends to                             *)
(* MEMORY.chat_memory.messages: the human message, then the ai message.     *)
(* The source takes no lock.                                                *)

\* one append to MEMORY.chat_memory.messages
add_message(messages, m) == Append(messages, m)

\* the script run of session s reaches agent_chain.invoke with a prompt
BeginInvoke(s) ==
    /\ sessions[s].pc = "idle"
    /\ Len(memory) < MaxTurns
    /\ \E prompt \in Prompts, strat \in ReasoningStrategies :
          LET la == load_agent(DefaultSelection, strat, environ, installation)
          IN  /\ la.raised = "none"
              /\ sessions' = [sessions EXCEPT ![s] =
                     [pc |-> "invoking", prompt |-> prompt, agent |-> la.agent]]
    /\ UNCHANGED <<envVars, pc, last_call, toolVars, invokeVars, appVars>>

\* the run of session s returned: the first append of its turn
SaveInput(s) ==
    /\ sessions[s].pc = "invoking"
    /\ sessions[s].agent.memory = "MEMORY"
    /\ memory' = add_message(memory, Human(sessions[s].prompt))
    /\ sessions' = [sessions EXCEPT ![s].pc = "saving"]
    /\ UNCHANGED <<envVars, pc, last_call, toolVars, invokeVars, chat_history,
                   shown, last_event, script>>

\* the second append of the turn; invoke returns to the script
SaveOutput(s) ==
    /\ sessions[s].pc = "saving"
    /\ memory' = add_message(memory, AI("answer"))
    /\ sessions' = [sessions EXCEPT ![s] = IdleSession]
    /\ UNCHANGED <<envVars, pc, last_call, toolVars, invokeVars, chat_history,
                   shown, last_event, script>>

\* the run of session s raised: nothing is recorded (app.py 109)
InvokeRaises(s) ==
    /\ sessions[s].pc = "invoking"
    /\ sessions' = [sessions EXCEPT ![s] = IdleSession]
    /\ UNCHANGED <<envVars, pc, last_call, toolVars, invokeVars, appVars>>

\* "Clear message history" is clicked in session s (app.py 64-65)
SessionClear(s) ==
    /\ sessions[s].pc = "idle"
    /\ memory # <<>>
    /\ memory' = chat_memory_clear(memory)
    /\ UNCHANGED <<envVars, pc, last_call, toolVars, invokeVars, chat_history,
                   shown, last_event, script, sessions>>

SessionBegins == \E s \in UISessions : BeginInvoke(s)

SessionSavesInput == \E s \in UISessions : SaveInput(s)

SessionSavesOutput == \E s \in UISessions : SaveOutput(s)

SessionRaises == \E s \in UISessions : InvokeRaises(s)

SessionClears == \E s \in UISessions : SessionClear(s)

InitSessions == InitWith({[v \in EnvVars |-> ""]}) /\ installation.ddgs = "ok"

NextSessions ==
    SessionBegins \/ SessionSavesInput \/ SessionSavesOutput \/ SessionRaises
        \/ SessionClears

SpecSessions == InitSessions /\ [][NextSessions]_vars

---------------------------------------------------------------------------
(* The shipped configuration: the process starts under any environment,     *)
(* the import of agent.agent runs set_environment (agent.py 18, and app.py  *)
(* 17-18 before it), and load_agent is called after the imports.            *)

\* a set_environment that assigns nothing to the credentials
set_environment_keep(env) == env

\* config.py 3-19 on the variables load_tools reads: the assignments of
\* lines 10, 12 and 19; GOOGLE_CSE_ID is not assigned
set_environment(env) ==
    [env EXCEPT !["GOOGLE_API_KEY"] = "",
                !["WOLFRAM_ALPHA_APPID"] = "",
                !["OWM_API_KEY"] = ""]

\* the modules are imported
ImportAgent ==
    /\ pc = "boot"
    /\ environ' = set_environment(environ)
    /\ pc' = "start"
    /\ UNCHANGED <<startup_environ, installation, last_call, toolVars,
                   invokeVars, appVars, sessions>>

ShippedRequestNames == {"llm-math", "openweathermap", "wolfram-alpha", "google-search"}

LoadAgentShipped ==
    LoadAgentWith(SeqsUpTo(ShippedRequestNames, MaxRequested), ReasoningStrategies)

InitShipped == InitFrom([EnvVars -> EnvValues], "boot")

NextShipped == ImportAgent \/ LoadAgentShipped

SpecShipped == InitShipped /\ [][NextShipped]_vars

---------------------------------------------------------------------------
(* Properties checked under SpecAgent *)

Invoked == inv_pc \in {"returned", "raised"}

\* C1: for either strategy, whatever the executor returns, the result of
\* invoke has an output that is a non-empty string.
C1_OutputNonEmpty == inv_pc = "returned" => response.output # ""

\* the response of the latest step whose textual response is non-empty, and
\* the sentinel when there is none
LatestNonEmptyResponse(steps) ==
    LET usable == {i \in 1..Len(steps) :
                     steps[i].is_dict /\ steps[i].has_response /\ steps[i].response # ""}
    IN  IF usable = {} THEN Sentinel
        ELSE steps[CHOOSE i \in usable : \A j \in usable : j <= i].response

\* C2: under plan-and-solve, when the executor's own output is missing or
\* empty, invoke returns the response of the latest intermediate step whose
\* response is non-empty, and the sentinel when no step has one.
C2_FallbackLatestNonEmpty ==
    (/\ inv_pc = "returned"
     /\ agent.kind = "PlanAndExecuteWrapper"
     /\ (~result.has_output \/ result.output = ""))
        => response.output = LatestNonEmptyResponse(result.steps)

\* C3: load_agent raises when the strategy is not one of the two known
\* strategies; an unknown strategy never yields a usable agent.
C3_UnknownStrategyRaises ==
    (pc # "start" /\ strategy \notin ReasoningStrategies)
        => (pc = "load_raised" /\ agent = NoAgent)

\* C10: under the single-step strategy an invocation runs at most 15
\* iterations, and one that used them all without a final answer ends with an
\* early-stopping output: it neither goes on nor raises.
C10_EarlyStoppingOutput ==
    /\ iterations <= max_iterations
    /\ (agent.kind = "AgentExecutor" /\ Invoked /\ iterations = max_iterations)
          => (inv_pc = "returned" /\ response.exc = "none" /\ response.output # "")

---------------------------------------------------------------------------
(* Properties checked under SpecTools *)

InRegistry(name) == name \in DOMAIN available_tools

\* the requested names that are keys of the registry, in request order
KnownRequested == SelectSeq(requested, InRegistry)

NotInRegistry(name) == name \notin DOMAIN available_tools

IsNotFound(m) == m.msg = "Tool not found"

\* C4: for every requested sequence the resolution does not raise and returns
\* exactly the tools whose names are in the registry, in order; every other
\* name is skipped with one warning and the names after it are still resolved.
C4_ResolutionPartial ==
    pc # "start" =>
        /\ pc # "load_raised"
        /\ agent.tools = [i \in 1..Len(KnownRequested) |->
                             available_tools[KnownRequested[i]]]
        /\ SelectSeq(printed, IsNotFound)
              = [i \in 1..Len(SelectSeq(requested, NotInRegistry)) |->
                    Msg("Tool not found", SelectSeq(requested, NotInRegistry)[i])]

\* an unknown name first, a known one after it: the known one is bound
C4_Witness ==
    /\ pc = "loaded"
    /\ requested = <<"nonexistent-tool", "llm-math">>
    /\ agent.tools = <<BaseTools["llm-math"]>>

\* C5: the tools bound to the agent hold no two tools with the same name,
\* for every requested sequence, repeats included.
C5_NoDuplicateBoundNames ==
    \A i, j \in 1..Len(agent.tools) :
        i # j => agent.tools[i].name # agent.tools[j].name

\* whether the environment and the installation let the optional tool be built
Buildable(name) ==
    CASE name = "ddg-search" ->
            installation.ddgs = "ok" \/ installation.ddg_old = "ok"
      [] name = "openweathermap" ->
            environ["OWM_API_KEY"] # "" /\ installation.pyowm = "ok"
      [] name = "wolfram-alpha" ->
            environ["WOLFRAM_ALPHA_APPID"] # "" /\ installation.wolfram = "ok"
      [] name = "google-search" ->
            /\ environ["GOOGLE_API_KEY"] # "" /\ environ["GOOGLE_CSE_ID"] # ""
            /\ \/ installation.google = "ok"
               \/ installation.google = "ImportError" /\ installation.google_old = "ok"

\* C6: whatever credentials are absent, packages unresolvable and
\* constructors failing among the optional tools, the build does not raise,
\* each optional tool is in the registry exactly when it could be built, the
\* always-available tools are in it, and load_agent returns an agent.
C6_GracefulDegradation ==
    pc # "start" =>
        /\ pc # "load_raised"
        /\ \A name \in OptionalNames : InRegistry(name) <=> Buildable(name)
        /\ \A name \in DOMAIN BaseTools :
              InRegistry(name) /\ available_tools[name] = BaseTools[name]
        /\ agent.kind \in {"AgentExecutor", "PlanAndExecuteWrapper"}
        /\ agent.memory = "MEMORY"

\* every optional tool fails in its own way and only the base tools remain
C6_Witness ==
    /\ pc = "loaded"
    /\ installation.ddgs = "ImportError" /\ installation.ddg_old = "Exception"
    /\ environ["OWM_API_KEY"] # "" /\ installation.pyowm = "Exception"
    /\ environ["WOLFRAM_ALPHA_APPID"] = ""
    /\ environ["GOOGLE_API_KEY"] # "" /\ environ["GOOGLE_CSE_ID"] # ""
    /\ installation.google = "ImportError" /\ installation.google_old = "ImportError"
    /\ DOMAIN available_tools = DOMAIN BaseTools
    /\ agent.kind = "AgentExecutor"
    /\ agent.tools = <<BaseTools["llm-math"]>>

\* C7: invoking a tool never raises: a failure of the live provider call
\* comes back to the reasoning loop as a string.
C7_ToolCallNeverRaises == last_call.result # "raised"

---------------------------------------------------------------------------
(* Properties checked under SpecApp *)

\* C8: after any sequence of turns the clear-history action leaves the shared
\* memory with zero turns, and the agent stays usable: the chat turn that
\* follows a clear records its prompt and its answer, and only them, into
\* that memory.
C8_ClearThenRecord ==
    [][/\ last_event' = "clear" => memory' = <<>>
       /\ (last_event = "clear" /\ last_event' = "chat" /\ response'.exc = "none")
             => \E prompt \in Prompts :
                   memory' = <<Human(prompt), AI(response'.output)>>]_vars

\* two answers were given in the session and the memory holds the turn of the
\* last one alone: the history was cleared in between
C8_Witness ==
    /\ last_event = "chat"
    /\ Len(chat_history) = 2
    /\ shown = <<"answer", "answer">>
    /\ memory = <<Human("q2"), AI("answer")>>

\* C9: a failure of the agent invocation in a chat turn is shown as an inline
\* error message and never leaves the script uncaught; the turn after a
\* failed turn is taken as any other.
C9_FailureInline ==
    /\ script = "completed"
    /\ last_event = "chat" =>
          /\ shown # <<>>
          /\ response.exc # "none" <=> shown[Len(shown)] = "error"

\* a failed turn, then an answered one
C9_Witness ==
    /\ last_event = "chat"
    /\ shown = <<"error", "answer">>
    /\ memory = <<Human("q1"), AI("answer")>>

---------------------------------------------------------------------------
(* Properties checked under SpecSessions *)

\* the sessions whose thread is inside agent_chain.invoke
InProgress == {s \in UISessions : sessions[s].pc # "idle"}

\* C11: at most one agent invocation is in progress at any time against the
\* shared memory, and the recorded turns are whole: the memory starts with a
\* human message and human and ai messages alternate, so the two messages of
\* one invocation are never split by a write of another.
C11_OneInvocationAtATime ==
    /\ Cardinality(InProgress) <= 1
    /\ memory # <<>> => memory[1].type = "human"
    /\ \A i \in 1..(Len(memory) - 1) : memory[i].type # memory[i + 1].type

---------------------------------------------------------------------------
(* Properties checked under SpecShipped *)

ShippedAbsent == {"openweathermap", "wolfram-alpha", "google-search"}

BlankedVars == {"OWM_API_KEY", "WOLFRAM_ALPHA_APPID", "GOOGLE_API_KEY"}

CredentialTools == {OpenWeatherMapTool, WolframAlphaTool, GoogleSearchRun}

\* C12: no registry is built before set_environment ran; from then on the
\* three credentials are the empty string whatever the environment held at
\* startup, so openweathermap, wolfram-alpha and google-search are never keys
\* of the registry, none of their tools is bound to the agent, and every
\* request for one of them is dropped with a "Tool not found" warning.
C12_ShippedCredentialToolsAbsent ==
    /\ pc = "boot" => available_tools = <<>>
    /\ pc # "boot" => \A v \in BlankedVars : environ[v] = ""
    /\ pc \in {"loaded", "load_raised"} => \A name \in ShippedAbsent : NotInRegistry(name)
    /\ pc = "loaded" =>
          /\ \A i \in 1..Len(agent.tools) : agent.tools[i] \notin CredentialTools
          /\ \A i \in 1..Len(requested) :
                requested[i] \in ShippedAbsent =>
                   \E j \in 1..Len(printed) : printed[j] = Msg("Tool not found", requested[i])

\* the process started with every credential set and every package
\* installed; openweathermap and google-search were requested and the agent
\* got no tool
C12_Witness ==
    /\ pc = "loaded"
    /\ \A v \in EnvVars : startup_environ[v] = "key"
    /\ \A f \in DOMAIN installation : installation[f] = "ok"
    /\ requested = <<"openweathermap", "google-search">>
    /\ agent.tools = <<>>

=============================================================================
